---- MODULE Spec2Model ----
(***************************************************************************)
(* Model of src/utils.rs of the Ollama / LM Studio proxy: the ProxyError   *)
(* taxonomy, the model-loading classifier (text rule, timing rule, subtype *)
(* classifier), the diagnostic logger with its global switch and           *)
(* thread-local buffer, sanitize_log_message and extract_client_ip.        *)
(*                                                                         *)
(* Text is a sequence of Unicode code points (a Rust String read through   *)
(* chars()); header values are sequences of bytes.  Every string literal   *)
(* of the source is spelled out as its code points, with the text beside   *)
(* it in a comment.                                                        *)
(***************************************************************************)
EXTENDS Integers, Sequences, FiniteSets, TLC

VARIABLES
    message, loading, subtype,                       \* classifier: input and the two verdicts
    err, cancelled, unavailable, is_loading, displayed, \* ProxyError value, its predicates' results, its Display text
    duration, threshold_ms, probable,                \* timing rule: inputs and verdict
    LOGGING_ENABLED, STRING_BUFFER, stdout, pc, frame, \* logger
    headers, client_ip,                              \* extract_client_ip: input and result
    text, once, twice                                \* sanitize_log_message: input, one and two passes

classifyVars == <<message, loading, subtype>>
errorVars    == <<err, cancelled, unavailable, is_loading, displayed>>
timingVars   == <<duration, threshold_ms, probable>>
logVars      == <<LOGGING_ENABLED, STRING_BUFFER, stdout, pc, frame>>
ipVars       == <<headers, client_ip>>
sanitizeVars == <<text, once, twice>>
vars == <<classifyVars, errorVars, timingVars, logVars, ipVars, sanitizeVars>>

(***************************************************************************)
(* Bounds of the model.                                                    *)
(***************************************************************************)
MaxWords == 3     \* words in a classified message
MaxLen   == 3     \* characters in a sanitized text
MaxLines == 1     \* lines standard output holds before the logger stops being called

(***************************************************************************)
(* Strings.                                                                *)
(***************************************************************************)
\* An Option<T>: <<>> is None (or "not computed yet"), <<v>> is Some(v).
None == <<>>
Some(v) == <<v>>

\* str::contains(pattern): pattern occurs as a contiguous run of s.
contains(s, p) ==
    \E i \in 0..(Len(s) - Len(p)) : SubSeq(s, i + 1, i + Len(p)) = p

\* char::to_lowercase: one character's lower-case form, itself a string.
\* ASCII A-Z and Latin-1 capitals move by 32; U+0130 expands to "i" plus a
\* combining dot; everything else the model uses is its own lower case.
char_to_lowercase(c) ==
    IF c >= 65 /\ c <= 90 THEN <<c + 32>>
    ELSE IF c >= 192 /\ c <= 222 /\ c # 215 THEN <<c + 32>>
    ELSE IF c = 304 THEN <<105, 775>>
    ELSE <<c>>

\* str::to_lowercase
RECURSIVE to_lowercase(_)
to_lowercase(s) ==
    IF s = <<>> THEN <<>> ELSE char_to_lowercase(Head(s)) \o to_lowercase(Tail(s))

\* A number in decimal, as {} prints an integer.
RECURSIVE decimal(_)
decimal(n) == IF n < 10 THEN <<48 + n>> ELSE decimal(n \div 10) \o <<48 + (n % 10)>>

(***************************************************************************)
(* is_model_loading_error (the text rule).                                 *)
(***************************************************************************)
\* The indicator list with "warming up model" shortened to the subtype
\* classifier's "warming up".
loading_indicators_drifted == {
    <<108, 111, 97, 100, 105, 110, 103, 32, 109, 111, 100, 101, 108>> (* "loading model" *),
    <<109, 111, 100, 101, 108, 32, 108, 111, 97, 100, 105, 110, 103>> (* "model loading" *),
    <<109, 111, 100, 101, 108, 32, 105, 115, 32, 108, 111, 97, 100, 105, 110, 103>> (* "model is loading" *),
    <<108, 111, 97, 100, 105, 110, 103, 32, 116, 104, 101, 32, 109, 111, 100, 101, 108>> (* "loading the model" *),
    <<109, 111, 100, 101, 108, 32, 110, 111, 116, 32, 108, 111, 97, 100, 101, 100>> (* "model not loaded" *),
    <<110, 111, 116, 32, 108, 111, 97, 100, 101, 100>> (* "not loaded" *),
    <<109, 111, 100, 101, 108, 32, 117, 110, 97, 118, 97, 105, 108, 97, 98, 108, 101>> (* "model unavailable" *),
    <<109, 111, 100, 101, 108, 32, 110, 111, 116, 32, 97, 118, 97, 105, 108, 97, 98, 108, 101>> (* "model not available" *),
    <<109, 111, 100, 101, 108, 32, 110, 111, 116, 32, 102, 111, 117, 110, 100>> (* "model not found" *),
    <<110, 111, 32, 109, 111, 100, 101, 108>> (* "no model" *),
    <<105, 110, 118, 97, 108, 105, 100, 32, 109, 111, 100, 101, 108>> (* "invalid model" *),
    <<117, 110, 107, 110, 111, 119, 110, 32, 109, 111, 100, 101, 108>> (* "unknown model" *),
    <<102, 97, 105, 108, 101, 100, 32, 116, 111, 32, 108, 111, 97, 100>> (* "failed to load" *),
    <<108, 111, 97, 100, 105, 110, 103, 32, 102, 97, 105, 108, 101, 100>> (* "loading failed" *),
    <<109, 111, 100, 101, 108, 32, 101, 114, 114, 111, 114>> (* "model error" *),
    <<105, 115, 32, 110, 111, 116, 32, 101, 109, 98, 101, 100, 100, 105, 110, 103>> (* "is not embedding" *),
    <<109, 111, 100, 101, 108, 32, 105, 110, 105, 116, 105, 97, 108, 105, 122, 97, 116, 105, 111, 110>> (* "model initialization" *),
    <<105, 110, 105, 116, 105, 97, 108, 105, 122, 105, 110, 103, 32, 109, 111, 100, 101, 108>> (* "initializing model" *),
    <<119, 97, 114, 109, 105, 110, 103, 32, 117, 112>> (* "warming up" *),
    <<109, 111, 100, 101, 108, 32, 115, 116, 97, 114, 116, 117, 112>> (* "model startup" *),
    <<112, 114, 101, 112, 97, 114, 105, 110, 103, 32, 109, 111, 100, 101, 108>> (* "preparing model" *),
    <<109, 111, 100, 101, 108, 32, 110, 111, 116, 32, 114, 101, 97, 100, 121>> (* "model not ready" *) }

loading_indicators == {
    <<108, 111, 97, 100, 105, 110, 103, 32, 109, 111, 100, 101, 108>> (* "loading model" *),
    <<109, 111, 100, 101, 108, 32, 108, 111, 97, 100, 105, 110, 103>> (* "model loading" *),
    <<109, 111, 100, 101, 108, 32, 105, 115, 32, 108, 111, 97, 100, 105, 110, 103>> (* "model is loading" *),
    <<108, 111, 97, 100, 105, 110, 103, 32, 116, 104, 101, 32, 109, 111, 100, 101, 108>> (* "loading the model" *),
    <<109, 111, 100, 101, 108, 32, 110, 111, 116, 32, 108, 111, 97, 100, 101, 100>> (* "model not loaded" *),
    <<110, 111, 116, 32, 108, 111, 97, 100, 101, 100>> (* "not loaded" *),
    <<109, 111, 100, 101, 108, 32, 117, 110, 97, 118, 97, 105, 108, 97, 98, 108, 101>> (* "model unavailable" *),
    <<109, 111, 100, 101, 108, 32, 110, 111, 116, 32, 97, 118, 97, 105, 108, 97, 98, 108, 101>> (* "model not available" *),
    <<109, 111, 100, 101, 108, 32, 110, 111, 116, 32, 102, 111, 117, 110, 100>> (* "model not found" *),
    <<110, 111, 32, 109, 111, 100, 101, 108>> (* "no model" *),
    <<105, 110, 118, 97, 108, 105, 100, 32, 109, 111, 100, 101, 108>> (* "invalid model" *),
    <<117, 110, 107, 110, 111, 119, 110, 32, 109, 111, 100, 101, 108>> (* "unknown model" *),
    <<102, 97, 105, 108, 101, 100, 32, 116, 111, 32, 108, 111, 97, 100>> (* "failed to load" *),
    <<108, 111, 97, 100, 105, 110, 103, 32, 102, 97, 105, 108, 101, 100>> (* "loading failed" *),
    <<109, 111, 100, 101, 108, 32, 101, 114, 114, 111, 114>> (* "model error" *),
    <<105, 115, 32, 110, 111, 116, 32, 101, 109, 98, 101, 100, 100, 105, 110, 103>> (* "is not embedding" *),
    <<109, 111, 100, 101, 108, 32, 105, 110, 105, 116, 105, 97, 108, 105, 122, 97, 116, 105, 111, 110>> (* "model initialization" *),
    <<105, 110, 105, 116, 105, 97, 108, 105, 122, 105, 110, 103, 32, 109, 111, 100, 101, 108>> (* "initializing model" *),
    <<119, 97, 114, 109, 105, 110, 103, 32, 117, 112, 32, 109, 111, 100, 101, 108>> (* "warming up model" *),
    <<109, 111, 100, 101, 108, 32, 115, 116, 97, 114, 116, 117, 112>> (* "model startup" *),
    <<112, 114, 101, 112, 97, 114, 105, 110, 103, 32, 109, 111, 100, 101, 108>> (* "preparing model" *),
    <<109, 111, 100, 101, 108, 32, 110, 111, 116, 32, 114, 101, 97, 100, 121>> (* "model not ready" *) }

negative_words == {
    <<110, 111>> (* "no" *),
    <<110, 111, 116>> (* "not" *),
    <<109, 105, 115, 115, 105, 110, 103>> (* "missing" *),
    <<105, 110, 118, 97, 108, 105, 100>> (* "invalid" *),
    <<117, 110, 107, 110, 111, 119, 110>> (* "unknown" *),
    <<102, 97, 105, 108, 101, 100>> (* "failed" *),
    <<117, 110, 97, 118, 97, 105, 108, 97, 98, 108, 101>> (* "unavailable" *),
    <<117, 110, 114, 101, 97, 99, 104, 97, 98, 108, 101>> (* "unreachable" *) }

model_ref_words == {
    <<109, 111, 100, 101, 108>> (* "model" *),
    <<108, 111, 97, 100>> (* "load" *),
    <<97, 118, 97, 105, 108, 97, 98, 108, 101>> (* "available" *),
    <<114, 101, 97, 100, 121>> (* "ready" *),
    <<105, 110, 105, 116, 105, 97, 108, 105, 122, 101>> (* "initialize" *) }

lm_studio_loading_patterns == {
    <<115, 101, 114, 118, 105, 99, 101, 32, 117, 110, 97, 118, 97, 105, 108, 97, 98, 108, 101>> (* "service unavailable" *),
    <<115, 101, 114, 118, 101, 114, 32, 101, 114, 114, 111, 114>> (* "server error" *),
    <<105, 110, 116, 101, 114, 110, 97, 108, 32, 101, 114, 114, 111, 114>> (* "internal error" *),
    <<116, 105, 109, 101, 111, 117, 116>> (* "timeout" *),
    <<99, 111, 110, 110, 101, 99, 116, 105, 111, 110>> (* "connection" *),
    <<53, 48, 51>> (* "503" *),
    <<53, 48, 48>> (* "500" *) }

\* lower is the lower-cased message in the four operators below.
matches_loading_indicator(lower) == \E p \in loading_indicators : contains(lower, p)
has_negative(lower) == \E p \in negative_words : contains(lower, p)
has_model_ref(lower) == \E p \in model_ref_words : contains(lower, p)
has_lm_studio_loading(lower) == \E p \in lm_studio_loading_patterns : contains(lower, p)

is_model_loading_error(m) ==
    LET lower == to_lowercase(m) IN
    IF matches_loading_indicator(lower) THEN TRUE
    ELSE (has_negative(lower) /\ has_model_ref(lower)) \/ has_lm_studio_loading(lower)

(***************************************************************************)
(* classify_model_loading_error (the subtype classifier).                  *)
(***************************************************************************)
not_found_phrases == { <<110, 111, 116, 32, 102, 111, 117, 110, 100>> (* "not found" *), <<117, 110, 107, 110, 111, 119, 110, 32, 109, 111, 100, 101, 108>> (* "unknown model" *), <<105, 110, 118, 97, 108, 105, 100, 32, 109, 111, 100, 101, 108>> (* "invalid model" *) }
not_loaded_phrases == { <<110, 111, 116, 32, 108, 111, 97, 100, 101, 100>> (* "not loaded" *), <<109, 111, 100, 101, 108, 32, 117, 110, 97, 118, 97, 105, 108, 97, 98, 108, 101>> (* "model unavailable" *) }
loading_phrases == { <<108, 111, 97, 100, 105, 110, 103>> (* "loading" *), <<105, 110, 105, 116, 105, 97, 108, 105, 122, 105, 110, 103>> (* "initializing" *), <<119, 97, 114, 109, 105, 110, 103, 32, 117, 112>> (* "warming up" *) }
failed_phrases == { <<102, 97, 105, 108, 101, 100, 32, 116, 111, 32, 108, 111, 97, 100>> (* "failed to load" *), <<108, 111, 97, 100, 105, 110, 103, 32, 102, 97, 105, 108, 101, 100>> (* "loading failed" *) }
service_unavailable_phrases == { <<115, 101, 114, 118, 105, 99, 101, 32, 117, 110, 97, 118, 97, 105, 108, 97, 98, 108, 101>> (* "service unavailable" *), <<53, 48, 51>> (* "503" *), <<116, 105, 109, 101, 111, 117, 116>> (* "timeout" *) }

any_of(lower, phrases) == \E p \in phrases : contains(lower, p)

classify_model_loading_error(m) ==
    LET lower == to_lowercase(m) IN
    IF any_of(lower, not_found_phrases) THEN "ModelNotFound"
    ELSE IF any_of(lower, not_loaded_phrases) THEN "ModelNotLoaded"
    ELSE IF any_of(lower, loading_phrases) THEN "ModelLoading"
    ELSE IF any_of(lower, failed_phrases) THEN "ModelFailed"
    ELSE IF any_of(lower, service_unavailable_phrases) THEN "ServiceUnavailable"
    ELSE "Unknown"

(***************************************************************************)
(* The messages the classifier is run on: up to MaxWords words of the      *)
(* vocabulary joined by single spaces.  Matching is on characters, so      *)
(* "unknown" carries "no" and "loading" carries "load".                    *)
(***************************************************************************)
Vocabulary == {
    <<77, 111, 100, 101, 108>> (* "Model" *),
    <<108, 111, 97, 100, 105, 110, 103>> (* "loading" *),
    <<108, 111, 97, 100>> (* "load" *),
    <<108, 111, 97, 100, 101, 100>> (* "loaded" *),
    <<70, 97, 105, 108, 101, 100>> (* "Failed" *),
    <<116, 111>> (* "to" *),
    <<110, 111, 116>> (* "not" *),
    <<110, 111>> (* "no" *),
    <<102, 111, 117, 110, 100>> (* "found" *),
    <<117, 110, 107, 110, 111, 119, 110>> (* "unknown" *),
    <<84, 105, 109, 101, 111, 117, 116>> (* "Timeout" *),
    <<111, 107>> (* "ok" *),
    <<119, 97, 114, 109, 105, 110, 103, 32, 117, 112>> (* "warming up" *),
    <<117, 110, 97, 118, 97, 105, 108, 97, 98, 108, 101>> (* "unavailable" *),
    <<114, 101, 97, 100, 121>> (* "ready" *),
    <<67, 111, 110, 110, 101, 99, 116, 105, 111, 110>> (* "Connection" *) }

RECURSIVE join(_)
join(ws) ==
    IF ws = <<>> THEN <<>>
    ELSE IF Len(ws) = 1 THEN ws[1]
    ELSE ws[1] \o <<32>> \o join(Tail(ws))

Messages == { join(ws) : ws \in UNION { [1..n -> Vocabulary] : n \in 0..MaxWords } }

(***************************************************************************)
(* Each specification below runs one part of the file; the other parts     *)
(* rest in the state they have before anything calls them.                 *)
(***************************************************************************)
ClassifyIdle == message = <<>> /\ loading = None /\ subtype = "none"
ErrorIdle    == /\ err = None /\ cancelled = None /\ unavailable = None
                /\ is_loading = None /\ displayed = None
TimingIdle   == duration = [secs |-> 0, nanos |-> 0] /\ threshold_ms = 0 /\ probable = None
LogIdle      == /\ LOGGING_ENABLED = TRUE /\ STRING_BUFFER = <<>> /\ stdout = <<>>
                /\ pc = "idle" /\ frame = None
IpIdle       == headers = <<>> /\ client_ip = None
SanitizeIdle == text = <<>> /\ once = None /\ twice = None

(***************************************************************************)
(* Specification SpecClassify: the two text classifiers applied to a       *)
(* message.                                                                *)
(***************************************************************************)
InitClassify ==
    /\ message \in Messages
    /\ loading = None
    /\ subtype = "none"
    /\ ErrorIdle /\ TimingIdle /\ LogIdle /\ IpIdle /\ SanitizeIdle

IsModelLoadingError ==
    /\ loading' = Some(is_model_loading_error(message))
    /\ UNCHANGED <<message, subtype>>
    /\ UNCHANGED <<errorVars, timingVars, logVars, ipVars, sanitizeVars>>

ClassifyModelLoadingError ==
    /\ subtype' = classify_model_loading_error(message)
    /\ UNCHANGED <<message, loading>>
    /\ UNCHANGED <<errorVars, timingVars, logVars, ipVars, sanitizeVars>>

NextClassify == IsModelLoadingError \/ ClassifyModelLoadingError

SpecClassify == InitClassify /\ [][NextClassify]_vars

\* The lower-cased message, as both classifiers see it.
Lowered == to_lowercase(message)

\* C1: a message whose lower-cased text has no negative word, no
\* model-reference word and no distress phrase is not a loading error, and no
\* phrase of the explicit indicator list occurs in it.
C1_NoKeywordIsNotLoading ==
    (/\ loading # None
     /\ ~has_negative(Lowered)
     /\ ~has_model_ref(Lowered)
     /\ ~has_lm_studio_loading(Lowered))
    => (loading = Some(FALSE) /\ \A p \in loading_indicators : ~contains(Lowered, p))

\* C1 witness: the text rule has answered on a non-empty message of two or
\* more words that carries none of the keywords.
C1_Witness ==
    /\ loading = Some(FALSE)
    /\ contains(message, <<32>>)
    /\ ~has_negative(Lowered)
    /\ ~has_model_ref(Lowered)
    /\ ~has_lm_studio_loading(Lowered)

\* C2: every message with a FailedToLoad phrase and no phrase of an earlier
\* group is classified ModelFailed, and each FailedToLoad phrase ("failed to
\* load", "loading failed") yields ModelFailed for some message: whenever the
\* classified message holds such a phrase, some message holding that phrase
\* is classified ModelFailed.
C2_EveryFailedPhraseYieldsModelFailed ==
    subtype # "none" =>
        /\ (/\ any_of(Lowered, failed_phrases)
            /\ ~any_of(Lowered, not_found_phrases)
            /\ ~any_of(Lowered, not_loaded_phrases)
            /\ ~any_of(Lowered, loading_phrases)) => subtype = "ModelFailed"
        /\ \A p \in failed_phrases :
              contains(Lowered, p) =>
                 \E m \in Messages :
                    /\ contains(to_lowercase(m), p)
                    /\ classify_model_loading_error(m) = "ModelFailed"

\* C10: the text rule and the subtype classifier agree: a subtype other than
\* Unknown implies the text rule says loading, and a message matching an
\* explicit loading indicator never classifies as Unknown.
C10_ClassifiersAgree ==
    (loading # None /\ subtype # "none") =>
        /\ (subtype # "Unknown" => loading = Some(TRUE))
        /\ (matches_loading_indicator(Lowered) => subtype # "Unknown")

(***************************************************************************)
(* ProxyError: the error value, its constructors and its predicates.       *)
(***************************************************************************)
\* crate::constants::ERROR_CANCELLED, the fixed text of a cancelled request.
ERROR_CANCELLED == <<82, 101, 113, 117, 101, 115, 116, 32, 99, 97, 110, 99, 101, 108, 108, 101, 100>> (* "Request cancelled" *)

new(msg, code) ==
    [message |-> msg, status_code |-> code, kind |-> "Custom"]
internal_server_error(msg) ==
    [message |-> msg, status_code |-> 500, kind |-> "InternalServerError"]
bad_request(msg) ==
    [message |-> msg, status_code |-> 400, kind |-> "BadRequest"]
not_found(msg) ==
    [message |-> msg, status_code |-> 404, kind |-> "NotFound"]
not_implemented(msg) ==
    [message |-> msg, status_code |-> 501, kind |-> "NotImplemented"]

\* request_cancelled with the status of a request timeout.
request_cancelled_as_408 ==
    [message |-> ERROR_CANCELLED, status_code |-> 408, kind |-> "RequestCancelled"]

request_cancelled ==
    [message |-> ERROR_CANCELLED, status_code |-> 499, kind |-> "RequestCancelled"]
lm_studio_unavailable(msg) ==
    [message |-> msg, status_code |-> 503, kind |-> "LMStudioUnavailable"]
model_loading(msg) ==
    [message |-> msg, status_code |-> 503, kind |-> "ModelLoading"]

is_cancelled(e) == e.kind = "RequestCancelled"
is_lm_studio_unavailable(e) == e.kind = "LMStudioUnavailable"

\* is_model_loading trusting the constructor alone.
is_model_loading_by_kind_only(e) == e.kind = "ModelLoading"

is_model_loading(e) == e.kind = "ModelLoading" \/ is_model_loading_error(e.message)

\* impl Display: "ProxyError {}: {}" of status_code and message.
fmt(e) == <<80, 114, 111, 120, 121, 69, 114, 114, 111, 114, 32>> (* "ProxyError " *) \o decimal(e.status_code) \o <<58, 32>> (* ": " *) \o e.message

\* Messages handed to the constructors: one matching an explicit indicator,
\* one matching a distress phrase, one with a negative word only, one clean.
ErrorMessages == {
    <<77, 111, 100, 101, 108, 32, 105, 115, 32, 108, 111, 97, 100, 105, 110, 103>> (* "Model is loading" *),
    <<99, 111, 110, 110, 101, 99, 116, 105, 111, 110, 32, 114, 101, 102, 117, 115, 101, 100>> (* "connection refused" *),
    <<102, 105, 108, 101, 32, 109, 105, 115, 115, 105, 110, 103>> (* "file missing" *),
    <<98, 97, 100, 32, 105, 110, 112, 117, 116>> (* "bad input" *) }

\* Status codes handed to new (as handle_lm_error! does with an upstream status).
StatusCodes == { 200, 404, 499, 500, 503 }

(***************************************************************************)
(* Specification SpecError: an error value is constructed, then used.      *)
(***************************************************************************)
InitError ==
    /\ ErrorIdle
    /\ ClassifyIdle /\ TimingIdle /\ LogIdle /\ IpIdle /\ SanitizeIdle

\* A constructor's result replaces the value at hand; nothing has asked it
\* anything yet.
Construct(e) ==
    /\ err' = Some(e)
    /\ cancelled' = None
    /\ unavailable' = None
    /\ is_loading' = None
    /\ displayed' = None

New ==
    /\ \E msg \in ErrorMessages, code \in StatusCodes : Construct(new(msg, code))
    /\ UNCHANGED <<classifyVars, timingVars, logVars, ipVars, sanitizeVars>>
InternalServerError ==
    /\ \E msg \in ErrorMessages : Construct(internal_server_error(msg))
    /\ UNCHANGED <<classifyVars, timingVars, logVars, ipVars, sanitizeVars>>
BadRequest ==
    /\ \E msg \in ErrorMessages : Construct(bad_request(msg))
    /\ UNCHANGED <<classifyVars, timingVars, logVars, ipVars, sanitizeVars>>
NotFound ==
    /\ \E msg \in ErrorMessages : Construct(not_found(msg))
    /\ UNCHANGED <<classifyVars, timingVars, logVars, ipVars, sanitizeVars>>
NotImplemented ==
    /\ \E msg \in ErrorMessages : Construct(not_implemented(msg))
    /\ UNCHANGED <<classifyVars, timingVars, logVars, ipVars, sanitizeVars>>
RequestCancelled ==
    /\ Construct(request_cancelled)
    /\ UNCHANGED <<classifyVars, timingVars, logVars, ipVars, sanitizeVars>>
LmStudioUnavailable ==
    /\ \E msg \in ErrorMessages : Construct(lm_studio_unavailable(msg))
    /\ UNCHANGED <<classifyVars, timingVars, logVars, ipVars, sanitizeVars>>
ModelLoading ==
    /\ \E msg \in ErrorMessages : Construct(model_loading(msg))
    /\ UNCHANGED <<classifyVars, timingVars, logVars, ipVars, sanitizeVars>>

IsCancelled ==
    /\ err # None
    /\ cancelled' = Some(is_cancelled(err[1]))
    /\ UNCHANGED <<err, unavailable, is_loading, displayed>>
    /\ UNCHANGED <<classifyVars, timingVars, logVars, ipVars, sanitizeVars>>

IsLmStudioUnavailable ==
    /\ err # None
    /\ unavailable' = Some(is_lm_studio_unavailable(err[1]))
    /\ UNCHANGED <<err, cancelled, is_loading, displayed>>
    /\ UNCHANGED <<classifyVars, timingVars, logVars, ipVars, sanitizeVars>>

IsModelLoading ==
    /\ err # None
    /\ is_loading' = Some(is_model_loading(err[1]))
    /\ UNCHANGED <<err, cancelled, unavailable, displayed>>
    /\ UNCHANGED <<classifyVars, timingVars, logVars, ipVars, sanitizeVars>>

Display ==
    /\ err # None
    /\ displayed' = Some(fmt(err[1]))
    /\ UNCHANGED <<err, cancelled, unavailable, is_loading>>
    /\ UNCHANGED <<classifyVars, timingVars, logVars, ipVars, sanitizeVars>>

NextError ==
    \/ New \/ InternalServerError \/ BadRequest \/ NotFound \/ NotImplemented
    \/ RequestCancelled \/ LmStudioUnavailable \/ ModelLoading
    \/ IsCancelled \/ IsLmStudioUnavailable \/ IsModelLoading \/ Display

SpecError == InitError /\ [][NextError]_vars

\* C3: is_model_loading() answers true exactly when the kind is ModelLoading
\* or the message matches the text rule: always true for a ModelLoading
\* error, and for every other kind the text rule's answer on the message,
\* whatever the status code.
C3_LoadingIffKindOrText ==
    (err # None /\ is_loading # None) =>
        /\ is_loading =
              Some(err[1].kind = "ModelLoading" \/ is_model_loading_error(err[1].message))
        /\ (err[1].kind = "ModelLoading" => is_loading = Some(TRUE))
        /\ (err[1].kind # "ModelLoading" =>
              is_loading = Some(is_model_loading_error(err[1].message)))

\* C3 witness: a Custom error with a non-503 status whose text matches the
\* rule has been found to be a loading error.
C3_Witness ==
    /\ err # None
    /\ err[1].kind = "Custom"
    /\ err[1].status_code = 404
    /\ is_loading = Some(TRUE)

\* The status code each kind other than Custom fixes.
KindStatus ==
    [InternalServerError |-> 500, BadRequest |-> 400, NotFound |-> 404,
     NotImplemented |-> 501, RequestCancelled |-> 499,
     LMStudioUnavailable |-> 503, ModelLoading |-> 503]

\* C4: kind and status code agree with the fixed table in every error value,
\* also after the value has been used; only Custom carries the caller's code;
\* is_cancelled() implies 499 and is_lm_studio_unavailable() implies 503.
C4_KindAndStatusAgree ==
    err # None =>
        /\ err[1].kind \in (DOMAIN KindStatus) \cup {"Custom"}
        /\ (err[1].kind # "Custom" => err[1].status_code = KindStatus[err[1].kind])
        /\ (cancelled = Some(TRUE) => err[1].status_code = 499)
        /\ (unavailable = Some(TRUE) => err[1].status_code = 503)

\* C4 witness: a cancelled-request error that has answered all three
\* predicates and has been displayed still carries 499.
C4_Witness ==
    /\ err # None
    /\ cancelled = Some(TRUE)
    /\ unavailable = Some(FALSE)
    /\ is_loading # None
    /\ displayed # None
    /\ err[1].status_code = 499

(***************************************************************************)
(* is_probable_model_loading_by_timing (the timing rule).                  *)
(***************************************************************************)
\* A std::time::Duration: whole seconds and the nanoseconds past them.
\* Duration::as_millis: the whole milliseconds in it.
as_millis(d) == d.secs * 1000 + (d.nanos \div 1000000)

is_probable_model_loading_by_timing(d, threshold) == as_millis(d) > threshold

\* Elapsed times around whole milliseconds, and thresholds beside them.
Durations ==
    [secs : {0, 1},
     nanos : {0, 1, 500000, 999999, 1000000, 1000001, 2000000, 999999999}]
Thresholds == {0, 1, 2, 1000, 1001, 1999}

(***************************************************************************)
(* Specification SpecTiming: the timing rule applied to an elapsed time.   *)
(***************************************************************************)
InitTiming ==
    /\ duration \in Durations
    /\ threshold_ms \in Thresholds
    /\ probable = None
    /\ ClassifyIdle /\ ErrorIdle /\ LogIdle /\ IpIdle /\ SanitizeIdle

IsProbableModelLoadingByTiming ==
    /\ probable' = Some(is_probable_model_loading_by_timing(duration, threshold_ms))
    /\ UNCHANGED <<duration, threshold_ms>>
    /\ UNCHANGED <<classifyVars, errorVars, logVars, ipVars, sanitizeVars>>

NextTiming == IsProbableModelLoadingByTiming

SpecTiming == InitTiming /\ [][NextTiming]_vars

\* d is longer than t milliseconds, at the nanosecond resolution of a Duration.
Exceeds(d, t) ==
    \/ (d.secs * 1000 + (d.nanos \div 1000000)) > t
    \/ ((d.secs * 1000 + (d.nanos \div 1000000)) = t /\ d.nanos % 1000000 # 0)

\* C5: the timing rule answers true exactly when the elapsed time strictly
\* exceeds threshold_ms milliseconds, fractions of a millisecond included.
C5_TrueIffElapsedExceedsThreshold ==
    probable # None => probable = Some(Exceeds(duration, threshold_ms))

(***************************************************************************)
(* sanitize_log_message.                                                   *)
(***************************************************************************)
\* char::is_control with the C0 range only (DEL and C1 forgotten).
is_control_c0_only(c) == c <= 31

\* char::is_control: general category Cc, U+0000-U+001F and U+007F-U+009F.
is_control(c) == c <= 31 \/ (c >= 127 /\ c <= 159)

\* The closure of the map: tab, newline and carriage return stay, any other
\* control character becomes '?'.
sanitize_char(c) == IF is_control(c) /\ c \notin {9, 10, 13} THEN 63 ELSE c

sanitize_log_message(s) == [i \in 1..Len(s) |-> sanitize_char(s[i])]

\* Tab, newline, carriage return, NUL, ESC, DEL, NEL (a C1 control), '?',
\* 'a' and e-acute.
SanitizeAlphabet == {9, 10, 13, 0, 27, 127, 133, 63, 97, 233}
Texts == UNION { [1..n -> SanitizeAlphabet] : n \in 0..MaxLen }

(***************************************************************************)
(* Specification SpecSanitize: a text is sanitized, and the result again.  *)
(***************************************************************************)
InitSanitize ==
    /\ text \in Texts
    /\ once = None
    /\ twice = None
    /\ ClassifyIdle /\ ErrorIdle /\ TimingIdle /\ LogIdle /\ IpIdle

Sanitize ==
    /\ once' = Some(sanitize_log_message(text))
    /\ UNCHANGED <<text, twice>>
    /\ UNCHANGED <<classifyVars, errorVars, timingVars, logVars, ipVars>>

SanitizeAgain ==
    /\ once # None
    /\ twice' = Some(sanitize_log_message(once[1]))
    /\ UNCHANGED <<text, once>>
    /\ UNCHANGED <<classifyVars, errorVars, timingVars, logVars, ipVars>>

NextSanitize == Sanitize \/ SanitizeAgain

SpecSanitize == InitSanitize /\ [][NextSanitize]_vars

\* The control characters of Unicode, and the three the sanitizer keeps.
ControlChars == (0..31) \cup (127..159)
KeptControls == {9, 10, 13}

\* C9: sanitizing twice gives what sanitizing once gives; the result has the
\* text's length, with every tab, newline and carriage return in place, every
\* other control character replaced by '?', and every other character as it
\* was.
C9_SanitizeIdempotentAndPointwise ==
    /\ twice # None => twice = once
    /\ once # None =>
         /\ Len(once[1]) = Len(text)
         /\ \A i \in 1..Len(text) :
               /\ text[i] \in KeptControls => once[1][i] = text[i]
               /\ text[i] \in ControlChars \ KeptControls => once[1][i] = 63
               /\ text[i] \notin ControlChars => once[1][i] = text[i]

\* C9 witness: a text holding a tab, an ESC and a DEL has been sanitized twice.
C9_Witness ==
    /\ twice # None
    /\ \E i, j, k \in 1..Len(text) : text[i] = 9 /\ text[j] = 27 /\ text[k] = 127

(***************************************************************************)
(* extract_client_ip.                                                      *)
(***************************************************************************)
ip_headers == << "x-forwarded-for", "x-real-ip", "cf-connecting-ip", "x-client-ip" >>

\* HeaderValue::to_str succeeds when every byte is visible ASCII or a tab.
to_str_ok(v) == \A i \in 1..Len(v) : (v[i] >= 32 /\ v[i] < 127) \/ v[i] = 9

\* ip_str.split(',').next(): the text before the first comma, or all of it.
RECURSIVE before_comma(_)
before_comma(s) ==
    IF s = <<>> \/ Head(s) = 44 THEN <<>> ELSE <<Head(s)>> \o before_comma(Tail(s))

\* char::is_whitespace on the characters a header's text can hold.
is_whitespace(c) == c \in {9, 10, 11, 12, 13, 32}

\* str::trim: whitespace removed from both ends.
RECURSIVE trim_start(_)
trim_start(s) ==
    IF s # <<>> /\ is_whitespace(Head(s)) THEN trim_start(Tail(s)) ELSE s
RECURSIVE trim_end(_)
trim_end(s) ==
    IF s # <<>> /\ is_whitespace(s[Len(s)]) THEN trim_end(SubSeq(s, 1, Len(s) - 1)) ELSE s
trim(s) == trim_end(trim_start(s))

\* The body of the loop with the emptiness test left out: the first listed
\* header that is present and is text wins.
header_ip_unchecked(hs, name) ==
    IF hs[name] # None /\ to_str_ok(hs[name][1])
    THEN Some(trim(before_comma(hs[name][1])))
    ELSE None

\* The body of the loop for one header name: Some(ip) when the loop returns
\* there, None when it moves on.
header_ip(hs, name) ==
    IF hs[name] # None /\ to_str_ok(hs[name][1]) /\ trim(before_comma(hs[name][1])) # <<>>
    THEN Some(trim(before_comma(hs[name][1])))
    ELSE None

RECURSIVE scan_ip_headers(_, _)
scan_ip_headers(hs, i) ==
    IF i > Len(ip_headers) THEN None
    ELSE IF header_ip(hs, ip_headers[i]) # None THEN header_ip(hs, ip_headers[i])
    ELSE scan_ip_headers(hs, i + 1)

extract_client_ip(hs) == scan_ip_headers(hs, 1)

\* What a request may carry in one of the headers: nothing, or one of these
\* values (empty, blank, a list, padded, an empty first item, bytes that are
\* not text).
HeaderValues == {
    <<>> (* "" *),
    <<32>> (* " " *),
    <<49, 46, 49, 46, 49, 46, 49, 44, 32, 50, 46, 50, 46, 50, 46, 50>> (* "1.1.1.1, 2.2.2.2" *),
    <<32, 9, 51, 46, 51, 46, 51, 46, 51, 32>> (* " \x093.3.3.3 " *),
    <<44, 52, 46, 52, 46, 52, 46, 52>> (* ",4.4.4.4" *),
    <<233, 53, 46, 53, 46, 53, 46, 53>> (* "é5.5.5.5" *) }
HeaderNames == { ip_headers[i] : i \in 1..Len(ip_headers) } \cup { "host" }
HeaderMaps == [HeaderNames -> {None} \cup { Some(v) : v \in HeaderValues }]

(***************************************************************************)
(* Specification SpecIp: the client IP is read off a request's headers.    *)
(***************************************************************************)
InitIp ==
    /\ headers \in HeaderMaps
    /\ headers["host"] \in {None, Some(<<49, 46, 49, 46, 49, 46, 49, 44, 32, 50, 46, 50, 46, 50, 46, 50>> (* "1.1.1.1, 2.2.2.2" *))}
    /\ client_ip = None
    /\ ClassifyIdle /\ ErrorIdle /\ TimingIdle /\ LogIdle /\ SanitizeIdle

\* client_ip holds the call's result once it has returned: Some(None) or
\* Some(Some(ip)).
ExtractClientIp ==
    /\ client_ip' = Some(extract_client_ip(headers))
    /\ UNCHANGED headers
    /\ UNCHANGED <<classifyVars, errorVars, timingVars, logVars, sanitizeVars>>

NextIp == ExtractClientIp

SpecIp == InitIp /\ [][NextIp]_vars

\* x is what header value v yields: v is text, x is non-empty, has no
\* whitespace at either end and no comma, and v is whitespace, x, whitespace,
\* and then its end or a comma.
Yields(v, x) ==
    /\ \A k \in 1..Len(v) : (v[k] >= 32 /\ v[k] < 127) \/ v[k] = 9
    /\ x # <<>>
    /\ x[1] \notin {9, 32} /\ x[Len(x)] \notin {9, 32}
    /\ \A k \in 1..Len(x) : x[k] # 44
    /\ \E a \in 0..Len(v), b \in 0..Len(v) :
          /\ a + Len(x) + b <= Len(v)
          /\ \A k \in 1..a : v[k] \in {9, 32}
          /\ SubSeq(v, a + 1, a + Len(x)) = x
          /\ \A k \in (a + Len(x) + 1)..(a + Len(x) + b) : v[k] \in {9, 32}
          /\ (a + Len(x) + b = Len(v) \/ v[a + Len(x) + b + 1] = 44)

\* Header h (an Option) yields nothing: absent, not text, or only whitespace
\* before its first comma.
YieldsNothing(h) == h = None \/ \A x \in { SubSeq(h[1], a, b) : a, b \in 1..Len(h[1]) } : ~Yields(h[1], x)

\* C8: the result is what the earliest header of the fixed order yields, no
\* later header's value is returned when an earlier one yields something, the
\* result is never the empty string, and it is nothing exactly when no listed
\* header yields anything.
C8_FirstYieldingHeaderWins ==
    client_ip # None =>
        /\ client_ip[1] = None <=>
              \A i \in 1..Len(ip_headers) : YieldsNothing(headers[ip_headers[i]])
        /\ client_ip[1] # None =>
              /\ client_ip[1][1] # <<>>
              /\ \E i \in 1..Len(ip_headers) :
                    /\ headers[ip_headers[i]] # None
                    /\ Yields(headers[ip_headers[i]][1], client_ip[1][1])
                    /\ \A j \in 1..(i - 1) : YieldsNothing(headers[ip_headers[j]])

\* C8 witness: x-forwarded-for is present and yields nothing, x-real-ip
\* yields a padded address, a later header holds another address, and the
\* call returned x-real-ip's.
C8_Witness ==
    /\ client_ip = Some(Some(<<51, 46, 51, 46, 51, 46, 51>> (* "3.3.3.3" *)))
    /\ headers["x-forwarded-for"] = Some(<<32>> (* " " *))
    /\ headers["x-real-ip"] = Some(<<32, 9, 51, 46, 51, 46, 51, 46, 51, 32>> (* " \x093.3.3.3 " *))
    /\ headers["x-client-ip"] = Some(<<49, 46, 49, 46, 49, 46, 49, 44, 32, 50, 46, 50, 46, 50, 46, 50>> (* "1.1.1.1, 2.2.2.2" *))

(***************************************************************************)
(* The diagnostic logger.                                                  *)
(***************************************************************************)
\* crate::constants: the glyphs that open a warning, an error and a request
\* line (a warning sign, a cross mark, an arrows sign).
LOG_PREFIX_WARNING == <<9888, 65039>>
LOG_PREFIX_ERROR == <<10060>>
LOG_PREFIX_REQUEST == <<128260>>

two_digits(n) == <<48 + (n \div 10), 48 + (n % 10)>>

\* chrono::Local::now().format("%H:%M:%S")
timestamp(now) ==
    two_digits(now.h) \o <<58>> (* ":" *) \o two_digits(now.m) \o <<58>> (* ":" *) \o two_digits(now.s)

\* n / q rounded to the nearest integer, as {:.1} and {:.2} round the last
\* digit they print (the elapsed times below are not half-way cases).
rounded(n, q) == (n \div q) + (IF 2 * (n % q) >= q THEN 1 ELSE 0)

format_duration(d) ==
    LET total_nanos == d.secs * 1000000000 + d.nanos IN
    IF total_nanos < 1000000
    THEN decimal(rounded(total_nanos, 100) \div 10) \o <<46>> (* "." *)
             \o decimal(rounded(total_nanos, 100) % 10) \o <<181, 115>>
    ELSE IF total_nanos < 1000000000
    THEN decimal(rounded(total_nanos, 10000) \div 100) \o <<46>> (* "." *)
             \o two_digits(rounded(total_nanos, 10000) % 100) \o <<109, 115>> (* "ms" *)
    ELSE decimal(rounded(total_nanos, 10000000) \div 100) \o <<46>> (* "." *)
             \o two_digits(rounded(total_nanos, 10000000) % 100) \o <<115>> (* "s" *)

\* println!: the text and a newline, as one write to standard output.
println(s) == s \o <<10>>

\* "[{}] {}" around the buffer, and log_info's "[{}] <info sign> {}".
stamped(now, buffer) == <<91>> (* "[" *) \o timestamp(now) \o <<93, 32>> (* "] " *) \o buffer
info_line(now, msg) ==
    <<91>> (* "[" *) \o timestamp(now) \o <<93, 32>> (* "] " *) \o <<8505, 65039>> \o <<32>> (* " " *)
        \o sanitize_log_message(msg)

\* What each function writes into the buffer.
warning_text(operation, warning) ==
    LOG_PREFIX_WARNING \o <<32>> (* " " *) \o sanitize_log_message(operation) \o <<58, 32>> (* ": " *)
        \o sanitize_log_message(warning)
error_text(operation, error) ==
    LOG_PREFIX_ERROR \o <<32>> (* " " *) \o sanitize_log_message(operation) \o <<32, 102, 97, 105, 108, 101, 100, 58, 32>> (* " failed: " *)
        \o sanitize_log_message(error)
request_text(method, path, model) ==
    IF model # None
    THEN LOG_PREFIX_REQUEST \o <<32>> (* " " *) \o method \o <<32>> (* " " *) \o sanitize_log_message(path)
             \o <<32, 40, 109, 111, 100, 101, 108, 58, 32>> (* " (model: " *) \o sanitize_log_message(model[1]) \o <<41>> (* ")" *)
    ELSE LOG_PREFIX_REQUEST \o <<32>> (* " " *) \o method \o <<32>> (* " " *) \o sanitize_log_message(path)
timed_text(prefix, operation, elapsed) ==
    prefix \o <<32>> (* " " *) \o operation \o <<32, 124, 32>> (* " | " *) \o format_duration(elapsed)

\* is_logging_enabled with the switch ignored.
logging_always_on == TRUE

is_logging_enabled == LOGGING_ENABLED

\* The texts callers pass: a plain one, and one carrying an ESC sequence, a
\* tab and a DEL.
LogTexts == { <<71, 69, 84>> (* "GET" *), <<27, 91, 50, 74, 9, 120, 127>> (* "\x1b[2J\x09x\x7f" *) }
\* Wall-clock readings and elapsed times (one per unit format_duration uses).
ClockReadings == { [h |-> 9, m |-> 5, s |-> 0] }
Elapsed == { [secs |-> 0, nanos |-> 1500], [secs |-> 0, nanos |-> 12340000],
             [secs |-> 1, nanos |-> 250000000] }

(***************************************************************************)
(* Specification SpecLog: one thread logs; init_global_logger may be       *)
(* called from anywhere at any time, also between a log call's test of the *)
(* switch and its write.  pc is the logging thread's place: "idle", or      *)
(* inside a call after the test, about to "write" or to "return".          *)
(***************************************************************************)
InitLog ==
    /\ LogIdle
    /\ ClassifyIdle /\ ErrorIdle /\ TimingIdle /\ IpIdle /\ SanitizeIdle

init_global_logger(enabled) ==
    /\ LOGGING_ENABLED' = enabled
    /\ UNCHANGED <<STRING_BUFFER, stdout, pc, frame>>

InitGlobalLogger ==
    /\ \E enabled \in BOOLEAN : init_global_logger(enabled)
    /\ UNCHANGED <<classifyVars, errorVars, timingVars, ipVars, sanitizeVars>>

\* A log function is entered and tests the switch.  Standard output holds at
\* most MaxLines lines: no call that would write starts once it is full.
Enter(fn, args) ==
    /\ is_logging_enabled => Len(stdout) < MaxLines
    /\ frame' = Some([fn |-> fn, args |-> args])
    /\ pc' = IF is_logging_enabled THEN "write" ELSE "return"
    /\ UNCHANGED <<LOGGING_ENABLED, STRING_BUFFER, stdout>>
    /\ UNCHANGED <<classifyVars, errorVars, timingVars, ipVars, sanitizeVars>>

LogInfo ==
    /\ pc = "idle"
    /\ \E msg \in LogTexts : Enter("log_info", <<msg>>)
LogWarning ==
    /\ pc = "idle"
    /\ \E operation \in LogTexts, warning \in LogTexts :
          Enter("log_warning", <<operation, warning>>)
LogError ==
    /\ pc = "idle"
    /\ \E operation \in LogTexts, error \in LogTexts :
          Enter("log_error", <<operation, error>>)
LogRequest ==
    /\ pc = "idle"
    /\ \E method \in LogTexts, path \in LogTexts,
          model \in {None} \cup {Some(t) : t \in LogTexts} :
          Enter("log_request", <<method, path, model>>)
LogTimed ==
    /\ pc = "idle"
    /\ \E prefix \in LogTexts, operation \in LogTexts :
          Enter("log_timed", <<prefix, operation>>)

\* The body of the if: the line is written, and the call returns.
Leave ==
    /\ pc' = "idle"
    /\ frame' = None
    /\ UNCHANGED LOGGING_ENABLED
    /\ UNCHANGED <<classifyVars, errorVars, timingVars, ipVars, sanitizeVars>>

Writing(fn) == pc = "write" /\ frame[1].fn = fn

WriteInfo ==
    /\ Writing("log_info")
    /\ \E now \in ClockReadings :
          stdout' = Append(stdout, println(info_line(now, frame[1].args[1])))
    /\ UNCHANGED STRING_BUFFER
    /\ Leave

\* buffer.clear(); write!(buffer, ...); println!("[{}] {}", now, buffer)
WriteBuffered(buffer) ==
    /\ STRING_BUFFER' = buffer
    /\ \E now \in ClockReadings :
          stdout' = Append(stdout, println(stamped(now, buffer)))
    /\ Leave

WriteWarning ==
    /\ Writing("log_warning")
    /\ WriteBuffered(warning_text(frame[1].args[1], frame[1].args[2]))

WriteError ==
    /\ Writing("log_error")
    /\ WriteBuffered(error_text(frame[1].args[1], frame[1].args[2]))

WriteRequest ==
    /\ Writing("log_request")
    /\ WriteBuffered(request_text(frame[1].args[1], frame[1].args[2], frame[1].args[3]))

WriteTimed ==
    /\ Writing("log_timed")
    /\ \E elapsed \in Elapsed :
          WriteBuffered(timed_text(frame[1].args[1], frame[1].args[2], elapsed))

\* The switch was off at the test: the call returns.
Return ==
    /\ pc = "return"
    /\ UNCHANGED <<STRING_BUFFER, stdout>>
    /\ Leave

NextLog ==
    \/ InitGlobalLogger
    \/ LogInfo \/ LogWarning \/ LogError \/ LogRequest \/ LogTimed
    \/ WriteInfo \/ WriteWarning \/ WriteError \/ WriteRequest \/ WriteTimed
    \/ Return

SpecLog == InitLog /\ [][NextLog]_vars

\* C6: the switch starts on; a step that changes it is a call of
\* init_global_logger and no step of a log call; a log call that tests the
\* switch while it is off goes on to return, and from its test to its return
\* standard output and the formatting buffer stay as they were.
C6_DisabledLoggerIsSilent ==
    /\ LOGGING_ENABLED = TRUE
    /\ [][ /\ LOGGING_ENABLED' # LOGGING_ENABLED =>
                 (pc' = pc /\ frame' = frame /\ stdout' = stdout /\ STRING_BUFFER' = STRING_BUFFER)
           /\ (pc = "idle" /\ pc' # "idle" /\ ~LOGGING_ENABLED) =>
                 (pc' = "return" /\ stdout' = stdout /\ STRING_BUFFER' = STRING_BUFFER)
           /\ pc = "return" => (stdout' = stdout /\ STRING_BUFFER' = STRING_BUFFER)
           /\ (stdout' # stdout \/ STRING_BUFFER' # STRING_BUFFER) => pc = "write"
         ]_vars

\* C6 witness: after a line went out through the buffer the switch was
\* turned off, and a log call made since is on its way out with nothing more
\* written.
C6_Witness ==
    /\ ~LOGGING_ENABLED
    /\ pc = "return"
    /\ frame[1].fn = "log_timed"
    /\ STRING_BUFFER # <<>>
    /\ Len(stdout) = 1

\* C7: no line on standard output holds a control character other than tab,
\* newline and carriage return (the timestamp, the glyphs and the duration
\* hold none, so any would come from a caller's text).
C7_LinesCarryNoControlCharacter ==
    \A i \in 1..Len(stdout) :
       \A k \in 1..Len(stdout[i]) :
          stdout[i][k] \notin ControlChars \ KeptControls
====
